---- MODULE Spec2Model ----
(***************************************************************************)
(* Tree Builder of the TreeGraph component (src/src/TreeGraph.js, the      *)
(* version that takes an activeNode): the node store nodesRef, the link    *)
(* list, and the effect that runs updateTreeFromHistory whenever the props *)
(* searchHistory, similarRecords or activeNode change.                     *)
(*                                                                         *)
(* Object references of the program are indices into the node list (the    *)
(* list is append-only, so an index identifies a node for ever); the       *)
(* reference null is the index 0.  Descriptions are the numbers            *)
(* 1..NumDescs, compared only for equality, as the code does.  A record    *)
(* without an id has the id NoId, which is falsy, as in JavaScript.        *)
(* The image of a record is copied through and never read: it is left out. *)
(*                                                                         *)
(* Spec is a session: the store starts empty and the effect runs up to     *)
(* MaxCalls times, each time on any props.  It keeps the store, the        *)
(* activeNode prop and the locals of the latest run.  SpecCall is one run  *)
(* on a store that earlier runs left behind; it also keeps the             *)
(* searchHistory and similarRecords props of that run, so that what the    *)
(* run did can be compared with what it was given.                         *)
(***************************************************************************)
EXTENDS Integers, Sequences, FiniteSets, TLC

\* ---------------------------------------------------------------- bounds
NumDescs == 3      \* distinct description texts
MaxHist == 2       \* longest searchHistory
MaxNbrs == 2       \* longest neighbour list in similarRecords
MaxCalls == 2      \* runs of the tree effect in one session
MaxSeedCalls == 1  \* earlier runs behind the store a traced run starts from
MaxSceneCalls == 2 \* runs of the Tree Builder behind a scene of the physics
MaxTicks == 8      \* calls of updatePhysics on one scene
MaxViewCalls == 1  \* runs of the tree effect while the viewport is watched
MaxEvents == 3     \* requests, gestures and timeouts of the viewport
MaxDepthArg == 3   \* largest depth handed to autoZoomForDepth
MaxList == 3       \* longest node list handed to smoothMoveToNode
MaxRenders == 1    \* renders of the component with new props
MaxFrames == 4     \* calls of updatePhysics by the animate loops of a component
MaxLoops == 3      \* animate loops started in the life of a component
NumObjects == 3    \* objects the service knows
MaxSelections == 3 \* selections by the user in the life of the App

\* ------------------------------------------------------ program constants
\* Lengths and velocities are fixed-point numbers: PX units to the pixel.
PX == 100
CHILD_SPREAD == 50 * PX
CHILD_OFFSET_Y == 0 - 50 * PX
NODE_EXTENDS == 30 * PX

\* ------------------------------------------------------------ input sets
NoId == 0          \* a record whose id is absent (undefined)
NullRef == 0       \* the reference null
NullNode == 0      \* activeNode = null

Descs == 1..NumDescs
Ids == {1}         \* the database ids that occur, besides the absent id

SeqsUpTo(S, n) == UNION {[1..k -> S] : k \in 0..n}

\* visited records {id?, text_for_embedding}
HistoryRecords == [id : {NoId} \cup Ids, text_for_embedding : Descs]
Histories == SeqsUpTo(HistoryRecords, MaxHist)

\* neighbour records {id?, text_for_embedding, similarityScore?}
SimilarObjects == [id : {NoId}, text_for_embedding : Descs, similarityScore : {0}]

\* one entry of similarRecords: a list, or no entry under that key
NoEntry == [defined |-> FALSE, records |-> <<>>]
Entries == {NoEntry} \cup
           {[defined |-> TRUE, records |-> l] : l \in SeqsUpTo(SimilarObjects, MaxNbrs)}
SimilarMaps == [Ids -> Entries]

\* activeNode: null, or an object with a description
ActiveNodes == {NullNode} \cup Descs

VARIABLES
    nodes,              \* nodesRef.current
    links,              \* the links state
    rootNodeRef,        \* rootNodeRef.current
    maxDepth,           \* the maxDepth state
    activeNode,         \* the activeNode prop of the latest run of the tree effect
    previousNodeCount,  \* locals of the latest run of the tree effect
    newlyCreatedNodes,
    hasNewNodes,
    calls,              \* runs of the tree effect so far
    searchHistory,      \* the other two props of the latest run, kept only
    similarRecords,     \* by the traced run of SpecCall
    allResting,         \* the local allResting of the latest updatePhysics
    ticks,              \* calls of updatePhysics so far
    svgSize,            \* width and height of the svg element
    transform,          \* the zoom transform of the svg element {x, y, k}
    transition,         \* the transition of the svg element that is in flight
    timers,             \* the pending setTimeout callbacks of smoothMoveToNode
    now,                \* the clock: events of the viewport so far
    userAt,             \* the time of the latest pan or zoom by the user
    request,            \* the latest programmatic request and its arguments
    hasError,           \* the hasError state
    props,              \* what kinds of values the latest render was given
    propErrors,         \* whether validateProps found errors in that render
    crashed,            \* an effect has thrown and React has removed the component
    uncaught,           \* the latest step raised an exception that nothing caught
    loops,              \* the animate loops started so far
    renders,            \* renders with new props so far
    unmounted,          \* the component has been unmounted
    object,             \* App: the object state, the selected object
    similarObjects,     \* App: the similarObjects state, the displayed list
    appRecords,         \* App: the similarRecords state, lists by object id
    appHistory,         \* App: the searchHistory state
    searchedNodes,      \* App: the searchedNodes state
    fetchTimers,        \* App: the pending setTimeout callbacks of handleSimilarObjectClick
    fetches,            \* App: the requests of fetchSimilarObjects in flight
    appError,           \* App: the error state
    selections          \* App: selections by the user so far

physicsVars == <<allResting, ticks>>
viewVars == <<svgSize, transform, transition, timers, now, userAt, request>>
loopVars == <<hasError, props, propErrors, crashed, uncaught, loops, renders, unmounted>>
appVars == <<object, similarObjects, appRecords, appHistory, searchedNodes,
             fetchTimers, fetches, appError, selections>>

vars == <<nodes, links, rootNodeRef, maxDepth, searchHistory, similarRecords,
          activeNode, previousNodeCount, newlyCreatedNodes, hasNewNodes, calls,
          physicsVars, viewVars, loopVars, appVars>>

\* the component before its first render
ValidProps == [searchHistory |-> "array", similarRecords |-> "object", onNodeSelect |-> TRUE]
NotRendered ==
    /\ hasError = FALSE
    /\ props = ValidProps
    /\ propErrors = FALSE
    /\ crashed = FALSE
    /\ uncaught = FALSE
    /\ loops = <<>>
    /\ renders = 0
    /\ unmounted = FALSE

\* the App after its first render: nothing selected, nothing in flight.
\* An object of the service: object i has the description i.
NoObject == 0
ObjectIds == 1..NumObjects
Obj(i) == [id |-> i, text_for_embedding |-> i]
NoSelection == Obj(NoObject)
Objects == {Obj(i) : i \in ObjectIds}
NoRecord == [defined |-> FALSE, list |-> <<>>]
\* the ids that can key similarRecords: those of the service, and the
\* temporary ids `node_${Date.now()}` made by handleNodeSelect
AllIds == 1..(NumObjects + MaxSelections + 1)
AppAtRest ==
    /\ object = NoSelection
    /\ similarObjects = <<>>
    /\ appRecords = [i \in AllIds |-> NoRecord]
    /\ appHistory = <<>>
    /\ searchedNodes = {}
    /\ fetchTimers = <<>>
    /\ fetches = {}
    /\ appError = FALSE
    /\ selections = 0

\* no frame has run updatePhysics yet
NoTick == allResting = TRUE /\ ticks = 0

\* =================================================================
\* The program
\* =================================================================
\* --------------------------------------------------------------- Node.js
\* new Node(position, velocity, description, image, parent, id): depth is
\* read from the parent at construction time
NodeDepthOfParent(ns, position, description, parent, id) ==
    [ position    |-> position,
      velocity    |-> [x |-> 0, y |-> 0],
      extends     |-> NODE_EXTENDS,
      childNodes  |-> <<>>,
      parentNode  |-> parent,
      description |-> description,
      id          |-> id,
      depth       |-> IF parent # NullRef THEN ns[parent].depth ELSE 0,
      resting     |-> FALSE ]

Node(ns, position, description, parent, id) ==
    [ position    |-> position,
      velocity    |-> [x |-> 0, y |-> 0],
      extends     |-> NODE_EXTENDS,
      childNodes  |-> <<>>,
      parentNode  |-> parent,
      description |-> description,
      id          |-> id,
      depth       |-> IF parent # NullRef THEN ns[parent].depth + 1 ELSE 0,
      resting     |-> FALSE ]

\* ---------------------------------------------------------- TreeGraph.js
\* nodesRef.current.find(node => node.description === d): the first match,
\* NullRef when there is none
FindNode(ns, d) ==
    IF \E i \in 1..Len(ns) : ns[i].description = d
    THEN CHOOSE i \in 1..Len(ns) :
            /\ ns[i].description = d
            /\ \A j \in 1..(i - 1) : ns[j].description # d
    ELSE NullRef

\* searchHistory.find(item => item.text_for_embedding === d): index of the
\* first match, 0 when there is none
FindRecord(h, d) ==
    IF \E i \in 1..Len(h) : h[i].text_for_embedding = d
    THEN CHOOSE i \in 1..Len(h) :
            /\ h[i].text_for_embedding = d
            /\ \A j \in 1..(i - 1) : h[j].text_for_embedding # d
    ELSE 0

TargetObjectLast(h, a) == h[Len(h)]

TargetObjectFirstFallback(h, a) ==
    LET found == IF a # NullNode THEN FindRecord(h, a) ELSE 0
    IN  IF found # 0 THEN h[found] ELSE h[1]

\* the record that supplies the neighbour list
TargetObject(h, a) ==
    LET found == IF a # NullNode THEN FindRecord(h, a) ELSE 0
    IN  IF found # 0 THEN h[found] ELSE h[Len(h)]

\* safeGetSimilarRecords: null unless the record has an id and the map has
\* an entry under it
safeGetSimilarRecords(targetObject, m) ==
    IF targetObject.id = NoId THEN NoEntry
    ELSE IF targetObject.id \in DOMAIN m THEN m[targetObject.id]
    ELSE NoEntry

\* the parent of the children attached in this call
ParentNode(ns, rootNode, a) ==
    LET activeNodeInTree == IF a # NullNode THEN FindNode(ns, a) ELSE NullRef
    IN  IF activeNodeInTree # NullRef THEN activeNodeInTree ELSE rootNode

FilteredSimilarObjectsNoDedup(ns, records) == records

\* the filter over the neighbour list: it runs to the end before the first
\* child is created, so it sees the store as it was after the root step
FilteredSimilarObjects(ns, records) ==
    SelectSeq(records,
              LAMBDA s : ~(\E i \in 1..Len(ns) : ns[i].description = s.text_for_embedding))

ChildPositionNoCentering(ns, parentNode, i, K) ==
    [ x |-> ns[parentNode].position.x + i * CHILD_SPREAD,
      y |-> ns[parentNode].position.y + CHILD_OFFSET_Y ]

ChildPosition(ns, parentNode, i, K) ==
    [ x |-> ns[parentNode].position.x + (i - (K \div 2)) * CHILD_SPREAD,
      y |-> ns[parentNode].position.y + CHILD_OFFSET_Y ]

\* link.initialAngle: undefined until updatePhysics stores an angle
NoAngle == [defined |-> FALSE, value |-> 0]

\* similarObject.similarityScore || 0: an absent score (NoScore) and the
\* score 0 give 0, every other score is taken as it is
NoScore == 0 - 2
ScoreOrZeroRaw(score) == score
ScoreOrZero(score) == IF score = NoScore \/ score = 0 THEN 0 ELSE score

\* filteredSimilarObjects.forEach((similarObject, i) => ...), from the
\* k-th element on (k is 1-based, the code's i is k - 1)
RECURSIVE AttachFrom(_, _, _, _)
AttachFrom(st, filtered, parentNode, k) ==
    IF k > Len(filtered) THEN st
    ELSE
      LET similarObject == filtered[k]
      IN  IF st.nodes[parentNode].description = similarObject.text_for_embedding
          THEN AttachFrom(st, filtered, parentNode, k + 1)
          ELSE
            LET childNode == Node(st.nodes,
                                  ChildPosition(st.nodes, parentNode, k - 1, Len(filtered)),
                                  similarObject.text_for_embedding,
                                  parentNode,
                                  similarObject.id)
                c  == Len(st.nodes) + 1
                withChild == Append(st.nodes, childNode)
                ns1 == [withChild EXCEPT ![parentNode].childNodes = Append(@, c)]
                newLink == [source |-> parentNode, target |-> c,
                            similarityScore |-> ScoreOrZero(similarObject.similarityScore),
                            initialAngle |-> NoAngle]
            IN  AttachFrom([nodes |-> ns1,
                            links |-> Append(st.links, newLink),
                            created |-> Append(st.created, c)],
                           filtered, parentNode, k + 1)

RootStepAlways(ns, rref, h) ==
    [nodes |-> Append(ns, Node(ns, [x |-> 0, y |-> 0],
                               h[1].text_for_embedding, NullRef, h[1].id)),
     rootNode |-> Len(ns) + 1,
     rootNodeRef |-> Len(ns) + 1,
     created |-> <<Len(ns) + 1>>]

RootStepNoReport(ns, rref, h) ==
    LET found == FindNode(ns, h[1].text_for_embedding)
    IN  IF found = NullRef
        THEN [nodes |-> Append(ns, Node(ns, [x |-> 0, y |-> 0],
                                        h[1].text_for_embedding, NullRef, h[1].id)),
              rootNode |-> Len(ns) + 1,
              rootNodeRef |-> Len(ns) + 1,
              created |-> <<>>]
        ELSE [nodes |-> ns, rootNode |-> found, rootNodeRef |-> rref,
              created |-> <<>>]

\* step 1 of updateTreeFromHistory, "Ensure Root Node Exists": the node of
\* the first visited record, created at the origin when no node has its
\* description
RootStep(ns, rref, h) ==
    LET found == FindNode(ns, h[1].text_for_embedding)
    IN  IF found = NullRef
        THEN [nodes |-> Append(ns, Node(ns, [x |-> 0, y |-> 0],
                                        h[1].text_for_embedding, NullRef, h[1].id)),
              rootNode |-> Len(ns) + 1,
              rootNodeRef |-> Len(ns) + 1,
              created |-> <<Len(ns) + 1>>]
        ELSE [nodes |-> ns, rootNode |-> found, rootNodeRef |-> rref,
              created |-> <<>>]

\* updateTreeFromHistory(searchHistory, similarRecords, activeNode): the new
\* store and the value returned (undefined on an empty history)
updateTreeFromHistory(ns, ls, rref, h, m, a) ==
    IF Len(h) = 0
    THEN [nodes |-> ns, links |-> ls, rootNodeRef |-> rref,
          returned |-> [defined |-> FALSE, value |-> <<>>]]
    ELSE
      LET rs    == RootStep(ns, rref, h)
          parentNode == ParentNode(rs.nodes, rs.rootNode, a)
          similarRecordsForTarget == safeGetSimilarRecords(TargetObject(h, a), m)
          st0   == [nodes |-> rs.nodes, links |-> ls, created |-> rs.created]
          st    == IF similarRecordsForTarget.defined
                   THEN AttachFrom(st0,
                                   FilteredSimilarObjects(rs.nodes,
                                                          similarRecordsForTarget.records),
                                   parentNode, 1)
                   ELSE st0
      IN  [nodes |-> st.nodes, links |-> st.links, rootNodeRef |-> rs.rootNodeRef,
           returned |-> [defined |-> TRUE, value |-> st.created]]

\* calculateMaxDepth(nodes)
calculateMaxDepth(ns) ==
    IF Len(ns) = 0 THEN 0
    ELSE LET D == {ns[i].depth : i \in 1..Len(ns)}
         IN  CHOOSE d \in D : \A e \in D : e <= d

\* ------------------------------------------------------------ physics.js
\* The numbers of the physics are fixed-point: lengths and velocities in
\* units of 1/PX pixel, angles in units of 1/RAD radian, the wind in units
\* of 1/FINE pixel, quotients truncated toward 0.  NaN stands for the
\* result of 0/0: it spreads through sums and products, and a comparison
\* with it is false.
RAD == 1000
FINE == 100000
NaN == 0 - 1000000000

DAMPING == 50                    \* per cent
COLLISION_BUFFER == 5 * PX
RESTING_THRESHOLD == (15 * PX) \div 100
SPRING_FORCE == 10               \* per cent
SPRING_SLACK == 80               \* per cent: the factor 0.8 on diff
TARGET_LINK_LENGTH == 150 * PX
ANGULAR_RESTORING_FORCE == 1     \* per cent
MAX_RESTORING_FORCE == PX \div 10
WIND_DAMPING_FACTOR == 20        \* per cent
WIND_FORCE_BASE == 12000         \* 0.12 pixel, in units of 1/FINE
MaxWindX == 137                  \* the five sine amplitudes added up, in 1/FINE

Abs(a) == IF a >= 0 THEN a ELSE 0 - a
Quot(a, b) == IF a >= 0 THEN a \div b ELSE 0 - ((0 - a) \div b)
Add(a, b) == IF a = NaN \/ b = NaN THEN NaN ELSE a + b
Sub(a, b) == IF a = NaN \/ b = NaN THEN NaN ELSE a - b
Less(a, b) == a # NaN /\ b # NaN /\ a < b

\* a * p / q; the only division by 0 that arises is 0/0
Scale(a, p, q) ==
    IF a = NaN \/ p = NaN \/ q = NaN \/ q = 0 THEN NaN ELSE Quot(a * p, q)

PerCent(a, p) == Scale(a, p, 100)

\* Math.sqrt of a sum of two squares, rounded down
MaxRoot == 46340
RECURSIVE SqrtBetween(_, _, _)
SqrtBetween(n, lo, hi) ==
    IF lo >= hi THEN lo
    ELSE LET mid == (lo + hi + 1) \div 2
         IN  IF mid * mid <= n THEN SqrtBetween(n, mid, hi)
                               ELSE SqrtBetween(n, lo, mid - 1)

Hypot(dx, dy) ==
    IF dx = NaN \/ dy = NaN THEN NaN ELSE SqrtBetween(dx * dx + dy * dy, 0, MaxRoot)

\* Math.atan2(dy, dx) in (-PI, PI], atan2(0, 0) = 0; the arc tangent of
\* z/RAD for 0 <= z <= RAD is taken as z * (pi/4 + 0.273 * (1 - z))
PI == 3142
AtanUnit(z) == Quot(z * (785 + Quot(273 * (RAD - z), RAD)), RAD)

Atan2(dy, dx) ==
    IF dy = NaN \/ dx = NaN THEN NaN
    ELSE IF dx = 0 /\ dy = 0 THEN 0
    ELSE LET ax == Abs(dx)
             ay == Abs(dy)
             a  == IF ax >= ay THEN AtanUnit(Quot(ay * RAD, ax))
                   ELSE (PI \div 2) - AtanUnit(Quot(ax * RAD, ay))
         IN  IF dx >= 0 THEN (IF dy >= 0 THEN a ELSE 0 - a)
             ELSE (IF dy >= 0 THEN PI - a ELSE a - PI)

\* the collision check of node n against the later node i
Resolve(ns, n, i) ==
    LET dx == Sub(ns[i].position.x, ns[n].position.x)
        dy == Sub(ns[i].position.y, ns[n].position.y)
        distance == Hypot(dx, dy)
        minDistance == ns[n].extends + ns[i].extends + COLLISION_BUFFER
    IN  IF Less(distance, minDistance)
        THEN LET half == Quot(minDistance - distance, 2)
                 \* (overlap / 2) * cos(angle) and * sin(angle), angle = atan2(dy, dx)
                 resolveX == IF distance = 0 THEN half ELSE Quot(half * dx, distance)
                 resolveY == IF distance = 0 THEN 0 ELSE Quot(half * dy, distance)
             IN  [ns EXCEPT ![n].position = [x |-> @.x - resolveX, y |-> @.y - resolveY],
                            ![i].position = [x |-> @.x + resolveX, y |-> @.y + resolveY]]
        ELSE ns

\* for (let i = index + 1; i < nodes.length; i++)
RECURSIVE CollideFrom(_, _, _)
CollideFrom(ns, n, i) ==
    IF i > Len(ns) THEN ns ELSE CollideFrom(Resolve(ns, n, i), n, i + 1)

\* position += velocity, velocity *= DAMPING, resting = speed < threshold
Integrate(node) ==
    LET vx == PerCent(node.velocity.x, DAMPING)
        vy == PerCent(node.velocity.y, DAMPING)
    IN  [node EXCEPT !.position = [x |-> Add(@.x, node.velocity.x),
                                   y |-> Add(@.y, node.velocity.y)],
                     !.velocity = [x |-> vx, y |-> vy],
                     !.resting  = Less(Hypot(vx, vy), RESTING_THRESHOLD)]

\* Phase 1: nodes.forEach((node, index) => ...) from the n-th node on; a
\* node without a parent is skipped
RECURSIVE Phase1From(_, _)
Phase1From(st, n) ==
    IF n > Len(st.nodes) THEN st
    ELSE IF st.nodes[n].parentNode = NullRef THEN Phase1From(st, n + 1)
    ELSE LET moved == [st.nodes EXCEPT ![n] = Integrate(@)]
         IN  Phase1From([nodes |-> CollideFrom(moved, n, n + 1),
                         allResting |-> st.allResting /\ moved[n].resting],
                        n + 1)

\* the body of links.forEach((link, index) => ...) for the k-th link
\* (k = index + 1)
LinkForces(st, k, windForce) ==
    LET link == st.links[k]
        src  == st.nodes[link.source]
        tgt  == st.nodes[link.target]
        dx == Sub(tgt.position.x, src.position.x)
        dy == Sub(tgt.position.y, src.position.y)
        distance == Hypot(dx, dy)
        diff == Sub(distance, TARGET_LINK_LENGTH)
        springForce == PerCent(PerCent(diff, SPRING_SLACK), SPRING_FORCE)
        fx == Scale(springForce, dx, distance)
        fy == Scale(springForce, dy, distance)
        \* !link.initialAngle holds for undefined, for the angle 0 and for NaN
        capture == /\ \/ ~link.initialAngle.defined
                      \/ link.initialAngle.value = 0
                      \/ link.initialAngle.value = NaN
                   /\ tgt.resting /\ src.resting
        currentAngle == Atan2(dy, dx)
        initialAngle == IF capture THEN [defined |-> TRUE, value |-> currentAngle]
                        ELSE link.initialAngle
        angleDiff == Sub(currentAngle, initialAngle.value)
        pull == Scale(Sub(0, angleDiff), ANGULAR_RESTORING_FORCE * PX, 100 * RAD)
        restoringForce == IF Less(MAX_RESTORING_FORCE, pull) THEN MAX_RESTORING_FORCE
                          ELSE IF Less(pull, 0 - MAX_RESTORING_FORCE)
                               THEN 0 - MAX_RESTORING_FORCE
                          ELSE pull
        \* restoringForce * cos(currentAngle + pi/2) and * sin(currentAngle + pi/2)
        angleForceX == IF ~initialAngle.defined THEN 0
                       ELSE IF distance = 0 THEN 0
                       ELSE Scale(restoringForce, Sub(0, dy), distance)
        angleForceY == IF ~initialAngle.defined THEN 0
                       ELSE IF distance = 0 THEN restoringForce
                       ELSE Scale(restoringForce, dx, distance)
        windX == Quot(windForce[1] * (k * k * k) * PX, Len(st.links) * FINE)
        windY == Quot(windForce[2] * PX, FINE)
        calm  == 100 - WIND_DAMPING_FACTOR
        tv == [x |-> PerCent(Add(Add(Sub(tgt.velocity.x, fx), angleForceX), windX), calm),
               y |-> PerCent(Sub(Add(Sub(tgt.velocity.y, fy), angleForceY), windY), calm)]
        sv == [x |-> PerCent(Add(Sub(Add(src.velocity.x, fx), angleForceX), windX), calm),
               y |-> PerCent(Sub(Sub(Add(src.velocity.y, fy), angleForceY), windY), calm)]
    IN  [nodes |-> [st.nodes EXCEPT ![link.target].velocity = tv,
                                    ![link.source].velocity = sv],
         links |-> [st.links EXCEPT ![k].initialAngle = initialAngle]]

\* Phase 2: links.forEach(...) from the k-th link on
RECURSIVE Phase2From(_, _, _)
Phase2From(st, k, windForce) ==
    IF k > Len(st.links) THEN st
    ELSE Phase2From(LinkForces(st, k, windForce), k + 1, windForce)

updatePhysicsUngated(ns, ls, windForce) ==
    LET p1 == Phase1From([nodes |-> ns, allResting |-> TRUE], 1)
        p2 == Phase2From([nodes |-> p1.nodes, links |-> ls], 1, windForce)
    IN  [nodes |-> p2.nodes, links |-> p2.links, allResting |-> p1.allResting]

\* updatePhysics(nodes, links, windForce): the nodes and links it leaves and
\* the final value of its local allResting
updatePhysics(ns, ls, windForce) ==
    LET p1 == Phase1From([nodes |-> ns, allResting |-> TRUE], 1)
        p2 == Phase2From([nodes |-> p1.nodes, links |-> ls], 1, windForce)
    IN  IF p1.allResting
        THEN [nodes |-> p2.nodes, links |-> p2.links, allResting |-> TRUE]
        ELSE [nodes |-> p1.nodes, links |-> ls, allResting |-> FALSE]

\* ------------------------------------------------- TreeGraph.js, viewport
\* A scale is a fixed-point number too: ZOOM units to the scale 1.
\* Infinity stands for the quotient of a positive number by 0.
ZOOM == 1000
Infinity == 2000000000

MIN_ZOOM == 200
MAX_ZOOM == 2000
DEFAULT_ZOOM == 1000
EDGE_LENGTH == 200 * PX
PADDING == 100 * PX

\* Math.min and Math.max
MathMin(a, b) == IF a = NaN \/ b = NaN THEN NaN ELSE IF a < b THEN a ELSE b
MathMax(a, b) == IF a = NaN \/ b = NaN THEN NaN ELSE IF a > b THEN a ELSE b

\* a / b of two numbers, b possibly 0
Div(a, b, unit) ==
    IF a = NaN \/ b = NaN THEN NaN
    ELSE IF b = 0 THEN (IF a > 0 THEN Infinity ELSE IF a < 0 THEN 0 - Infinity ELSE NaN)
    ELSE Quot(a * unit, b)

\* a length times a scale
Zoomed(a, k) == IF a = NaN \/ k = NaN THEN NaN ELSE Quot(a * k, ZOOM)

\* the viewport sizes, the transforms a user gesture can leave (the zoom
\* behaviour keeps the scale within its extent [0.1, 4])
SvgSizes == {[width |-> 800 * PX, height |-> 600 * PX],
             [width |-> 400 * PX, height |-> 200 * PX]}
UserTransforms == {[x |-> 10 * PX, y |-> 20 * PX, k |-> ZOOM \div 2],
                   [x |-> 0 - 300 * PX, y |-> 50 * PX, k |-> 3 * ZOOM]}

NoTransition == [active |-> FALSE, target |-> [x |-> 0, y |-> 0, k |-> ZOOM], frames |-> 0]
NoCentre == [defined |-> FALSE, node |-> NullRef, value |-> [x |-> 0, y |-> 0]]
NoRequest == [op |-> "none", at |-> 0, depth |-> 0, list |-> <<>>]

\* d3.zoomIdentity.translate(width / 2, height / 2).scale(1)
InitialTransform(size) ==
    [x |-> Quot(size.width, 2), y |-> Quot(size.height, 2), k |-> ZOOM]

\* the viewport of a mounted component that nothing has touched
ViewAtRest ==
    /\ svgSize = [width |-> 800 * PX, height |-> 600 * PX]
    /\ transform = InitialTransform(svgSize)
    /\ transition = NoTransition
    /\ timers = {}
    /\ now = 0
    /\ userAt = 0
    /\ request = NoRequest

calculateNodesCenterFirst(ns, list) ==
    IF Len(list) = 0 THEN NoCentre
    ELSE [defined |-> TRUE, node |-> list[1], value |-> ns[list[1]].position]

\* calculateNodesCenter(nodes): null, the position object of a node (read
\* again whenever the centre is used), or a new object with the mean of two
\* positions
calculateNodesCenter(ns, list) ==
    IF Len(list) = 0 THEN NoCentre
    ELSE IF Len(list) = 1
    THEN [defined |-> TRUE, node |-> list[1], value |-> ns[list[1]].position]
    ELSE IF Len(list) % 2 = 1
    THEN LET centerNode == list[(Len(list) \div 2) + 1]
         IN  [defined |-> TRUE, node |-> centerNode, value |-> ns[centerNode].position]
    ELSE LET centerNode1 == list[Len(list) \div 2]
             centerNode2 == list[(Len(list) \div 2) + 1]
         IN  [defined |-> TRUE, node |-> NullRef,
              value |-> [x |-> Scale(Add(ns[centerNode1].position.x,
                                         ns[centerNode2].position.x), 1, 2),
                         y |-> Scale(Add(ns[centerNode1].position.y,
                                         ns[centerNode2].position.y), 1, 2)]]

\* centerPosition.x and .y at the time the timeout runs
CentrePosition(ns, c) == IF c.node # NullRef THEN ns[c.node].position ELSE c.value

\* the transform that puts the point p at the middle of the svg at scale k
CentredOn(size, p, k) ==
    [x |-> Sub(Quot(size.width, 2), Zoomed(p.x, k)),
     y |-> Sub(Quot(size.height, 2), Zoomed(p.y, k)),
     k |-> k]

\* finalZoom of autoZoomForDepth
FinalZoom(ns, size, newMaxDepth) ==
    IF Len(ns) = 1 THEN DEFAULT_ZOOM
    ELSE LET estimatedTreeHeight == newMaxDepth * EDGE_LENGTH
             zoomToFit == Div(size.height - PADDING * 2, estimatedTreeHeight, ZOOM)
         IN  MathMax(MIN_ZOOM, MathMin(MAX_ZOOM, zoomToFit))

\* rootNodeRef.current || nodesRef.current.find(node => node.parentNode === null)
RootNode(ns, rref) ==
    IF rref # NullRef THEN rref
    ELSE CHOOSE i \in 1..Len(ns) :
            /\ ns[i].parentNode = NullRef
            /\ \A j \in 1..(i - 1) : ns[j].parentNode # NullRef

\* targetTransform of autoZoomForDepth
AutoZoomTarget(ns, rref, size, newMaxDepth) ==
    CentredOn(size, ns[RootNode(ns, rref)].position, FinalZoom(ns, size, newMaxDepth))

\* resetTransform of resetView
ResetTarget(ns, size) ==
    IF Len(ns) > 0 THEN CentredOn(size, ns[1].position, ZOOM)
    ELSE InitialTransform(size)

\* svg.transition().duration(...).call(zoomRef.current.transform, target):
\* the new transition takes the place of the one in flight
Transition(target) == [active |-> TRUE, target |-> target, frames |-> 0]

\* a transform on the way from one transform to another
Halfway(from, to) ==
    [x |-> Scale(Add(from.x, to.x), 1, 2),
     y |-> Scale(Add(from.y, to.y), 1, 2),
     k |-> Scale(Add(from.k, to.k), 1, 2)]

\* ------------------------------------------------------------------ Init
NoReturn == [defined |-> FALSE, value |-> <<>>]
NoProps == [i \in Ids |-> NoEntry]

Init ==
    /\ nodes = <<>>
    /\ links = <<>>
    /\ rootNodeRef = NullRef
    /\ maxDepth = 0
    /\ activeNode = NullNode
    /\ previousNodeCount = 0
    /\ newlyCreatedNodes = NoReturn
    /\ hasNewNodes = FALSE
    /\ calls = 0
    /\ searchHistory = <<>>
    /\ similarRecords = NoProps
    /\ NoTick
    /\ ViewAtRest
    /\ NotRendered
    /\ AppAtRest

\* --------------------------------------------------------------- actions
\* the body of useEffect(..., [searchHistory, similarRecords, activeNode])
\* run on the props (h, m, a)
RunEffect(h, m, a) ==
    /\ LET r == updateTreeFromHistory(nodes, links, rootNodeRef, h, m, a)
           currentNodeCount == Len(r.nodes)
           isFirstNode == currentNodeCount = 1 /\ Len(nodes) = 0
           hasNew == r.returned.defined /\ Len(r.returned.value) > 0
       IN  /\ nodes' = r.nodes
           /\ links' = r.links
           /\ rootNodeRef' = r.rootNodeRef
           /\ newlyCreatedNodes' = r.returned
           /\ hasNewNodes' = hasNew
           /\ maxDepth' = IF isFirstNode \/ hasNew
                          THEN calculateMaxDepth(r.nodes) ELSE maxDepth
    /\ previousNodeCount' = Len(nodes)
    /\ activeNode' = a
    /\ calls' = calls + 1

\* the props change to (h, m, a) and the effect runs
TreeEffect(h, m, a) ==
    /\ calls < MaxCalls
    /\ RunEffect(h, m, a)
    /\ UNCHANGED <<searchHistory, similarRecords, physicsVars, viewVars, loopVars, appVars>>

Next ==
    /\ calls < MaxCalls
    /\ \E h \in Histories, m \in SimilarMaps, a \in ActiveNodes : TreeEffect(h, m, a)

Spec == Init /\ [][Next]_vars

\* ------------------------------------------------ one run on a given store
\* the stores that n runs of the Tree Builder can leave behind
RECURSIVE StoresAfter(_)
StoresAfter(n) ==
    IF n = 0
    THEN {[nodes |-> <<>>, links |-> <<>>, rootNodeRef |-> NullRef]}
    ELSE LET S == StoresAfter(n - 1)
         IN  S \cup
             { LET r == updateTreeFromHistory(s.nodes, s.links, s.rootNodeRef, h, m, a)
               IN  [nodes |-> r.nodes, links |-> r.links, rootNodeRef |-> r.rootNodeRef]
               : s \in S, h \in Histories, m \in SimilarMaps, a \in ActiveNodes }

InitCall ==
    /\ \E s \in StoresAfter(MaxSeedCalls) :
          /\ nodes = s.nodes
          /\ links = s.links
          /\ rootNodeRef = s.rootNodeRef
          /\ maxDepth = calculateMaxDepth(s.nodes)
    /\ activeNode = NullNode
    /\ previousNodeCount = 0
    /\ newlyCreatedNodes = NoReturn
    /\ hasNewNodes = FALSE
    /\ calls = 0
    /\ searchHistory = <<>>
    /\ similarRecords = NoProps
    /\ NoTick
    /\ ViewAtRest
    /\ NotRendered
    /\ AppAtRest

\* one run of the effect whose three props are all kept
TracedTreeEffect(h, m, a) ==
    /\ calls = 0
    /\ RunEffect(h, m, a)
    /\ searchHistory' = h
    /\ similarRecords' = m
    /\ UNCHANGED <<physicsVars, viewVars, loopVars, appVars>>

NextCall ==
    /\ calls = 0
    /\ \E h \in Histories, m \in SimilarMaps, a \in ActiveNodes : TracedTreeEffect(h, m, a)

SpecCall == InitCall /\ [][NextCall]_vars

\* ------------------------------- one run whose neighbours carry scores
\* neighbour records whose similarityScore is absent or a number (0.87)
WeighedObjects == [id : {NoId}, text_for_embedding : Descs, similarityScore : {NoScore, 87}]
WeighedMaps == [Ids -> {NoEntry} \cup
                       {[defined |-> TRUE, records |-> l] :
                           l \in SeqsUpTo(WeighedObjects, MaxNbrs)}]

NextAttach ==
    /\ calls = 0
    /\ \E h \in Histories, m \in WeighedMaps, a \in ActiveNodes : TracedTreeEffect(h, m, a)

SpecAttach == InitCall /\ [][NextAttach]_vars

\* ----------------------------------------------- the physics on a scene
\* the wind that animate hands to updatePhysics: a sum of sines in x, the
\* constant WIND_FORCE_BASE in y
WindForces == {<<wx, WIND_FORCE_BASE>> : wx \in {0 - MaxWindX, 0, MaxWindX}}

\* the stores that n runs of the Tree Builder leave behind when the history
\* is a single visited record with an id
SceneHistories == {h \in Histories : Len(h) = 1 /\ h[1].id \in Ids}

RECURSIVE Scenes(_)
Scenes(n) ==
    IF n = 0
    THEN {[nodes |-> <<>>, links |-> <<>>, rootNodeRef |-> NullRef]}
    ELSE LET S == Scenes(n - 1)
         IN  S \cup
             { LET r == updateTreeFromHistory(s.nodes, s.links, s.rootNodeRef, h, m, a)
               IN  [nodes |-> r.nodes, links |-> r.links, rootNodeRef |-> r.rootNodeRef]
               : s \in S, h \in SceneHistories, m \in SimilarMaps, a \in ActiveNodes }

InitPhysics ==
    /\ \E s \in Scenes(MaxSceneCalls) :
          /\ nodes = s.nodes
          /\ links = s.links
          /\ rootNodeRef = s.rootNodeRef
          /\ maxDepth = calculateMaxDepth(s.nodes)
    /\ activeNode = NullNode
    /\ previousNodeCount = 0
    /\ newlyCreatedNodes = NoReturn
    /\ hasNewNodes = FALSE
    /\ calls = 0
    /\ searchHistory = <<>>
    /\ similarRecords = NoProps
    /\ NoTick
    /\ ViewAtRest
    /\ NotRendered
    /\ AppAtRest

\* one frame of animate on a store that has nodes: updatePhysics runs once
PhysicsTick(windForce) ==
    /\ ticks < MaxTicks
    /\ Len(nodes) > 0
    /\ LET r == updatePhysics(nodes, links, windForce)
       IN  /\ nodes' = r.nodes
           /\ links' = r.links
           /\ allResting' = r.allResting
    /\ ticks' = ticks + 1
    /\ UNCHANGED <<rootNodeRef, maxDepth, searchHistory, similarRecords, activeNode,
                   previousNodeCount, newlyCreatedNodes, hasNewNodes, calls, viewVars,
                   loopVars, appVars>>

NextPhysics ==
    /\ ticks < MaxTicks
    /\ \E windForce \in WindForces : PhysicsTick(windForce)

SpecPhysics == InitPhysics /\ [][NextPhysics]_vars

\* ------------------------------------- the physics on nodes placed by hand
\* updatePhysics is exported and takes any nodes and links.  A chain scene
\* is a root at its creation position, a child A of the root and a child B
\* of A, with the two links of the tree, A and B placed anywhere: on top of
\* each other, on top of the root, or B level with A.
PlacesA == {[x |-> 0, y |-> 0], [x |-> 0, y |-> 0 - 50 * PX]}
PlacesB == {[x |-> 150 * PX, y |-> 0 - 50 * PX], [x |-> 50 * PX, y |-> 0 - 100 * PX],
            [x |-> 0, y |-> 0 - 50 * PX], [x |-> 0 - 50 * PX, y |-> 0 - 100 * PX]}
VelocitiesB == {[x |-> 0, y |-> 0], [x |-> 4 * PX, y |-> 0], [x |-> 0, y |-> 0 - 2 * PX]}

Placed(node, position, velocity, kids) ==
    [node EXCEPT !.position = position, !.velocity = velocity, !.childNodes = kids]

ChainScene(pa, pb, vb) ==
    LET root == Placed(Node(<<>>, [x |-> 0, y |-> 0], 1, NullRef, 1),
                       [x |-> 0, y |-> 0], [x |-> 0, y |-> 0], <<2>>)
        a    == Placed(Node(<<root>>, pa, 2, 1, NoId), pa, [x |-> 0, y |-> 0], <<3>>)
        b    == Placed(Node(<<root, a>>, pb, 3, 2, NoId), pb, vb, <<>>)
    IN  [nodes |-> <<root, a, b>>,
         links |-> <<[source |-> 1, target |-> 2, similarityScore |-> 0,
                      initialAngle |-> NoAngle],
                     [source |-> 2, target |-> 3, similarityScore |-> 0,
                      initialAngle |-> NoAngle]>>]

InitScene ==
    /\ \E pa \in PlacesA, pb \in PlacesB, vb \in VelocitiesB :
          /\ nodes = ChainScene(pa, pb, vb).nodes
          /\ links = ChainScene(pa, pb, vb).links
    /\ rootNodeRef = 1
    /\ maxDepth = 2
    /\ activeNode = NullNode
    /\ previousNodeCount = 0
    /\ newlyCreatedNodes = NoReturn
    /\ hasNewNodes = FALSE
    /\ calls = 0
    /\ searchHistory = <<>>
    /\ similarRecords = NoProps
    /\ NoTick
    /\ ViewAtRest
    /\ NotRendered
    /\ AppAtRest

NextScene ==
    /\ ticks < MaxTicks
    /\ \E windForce \in WindForces : PhysicsTick(windForce)

SpecScene == InitScene /\ [][NextScene]_vars

\* --------------------------------------------------------- the viewport
\* the props of the tree effect while the viewport is watched
ViewHistories == {<<>>} \cup SceneHistories

\* the node lists handed to smoothMoveToNode: nodes of the store in the
\* order of the store
NodeLists(ns) ==
    {l \in SeqsUpTo(1..Len(ns), MaxList) : \A i \in 1..(Len(l) - 1) : l[i] < l[i + 1]}

DepthArgs == 0..MaxDepthArg

InitView ==
    /\ nodes = <<>>
    /\ links = <<>>
    /\ rootNodeRef = NullRef
    /\ maxDepth = 0
    /\ activeNode = NullNode
    /\ previousNodeCount = 0
    /\ newlyCreatedNodes = NoReturn
    /\ hasNewNodes = FALSE
    /\ calls = 0
    /\ searchHistory = <<>>
    /\ similarRecords = NoProps
    /\ NoTick
    /\ svgSize \in SvgSizes
    /\ transform = InitialTransform(svgSize)
    /\ transition = NoTransition
    /\ timers = {}
    /\ now = 0
    /\ userAt = 0
    /\ request = NoRequest
    /\ NotRendered
    /\ AppAtRest

StoreUnchanged ==
    UNCHANGED <<nodes, links, rootNodeRef, maxDepth, searchHistory, similarRecords,
                activeNode, previousNodeCount, newlyCreatedNodes, hasNewNodes, calls,
                physicsVars, loopVars, appVars>>

\* the props change and the tree effect runs; when it added links, the
\* component renders again and the effect that depends on links runs: it
\* installs a new zoom behaviour and sets the initial transform on the svg,
\* which interrupts the transition in flight
ViewTreeEffect(h, m, a) ==
    /\ calls < MaxViewCalls
    /\ RunEffect(h, m, a)
    /\ IF links' # links
       THEN /\ transform' = InitialTransform(svgSize)
            /\ transition' = NoTransition
       ELSE UNCHANGED <<transform, transition>>
    /\ UNCHANGED <<searchHistory, similarRecords, physicsVars, loopVars, appVars,
                   svgSize, timers, now, userAt, request>>

\* a pan or zoom gesture of the user: the zoom behaviour interrupts the
\* transition in flight and sets the transform
UserZoom(t) ==
    /\ now < MaxEvents
    /\ transform' = t
    /\ transition' = NoTransition
    /\ userAt' = now + 1
    /\ now' = now + 1
    /\ UNCHANGED <<svgSize, timers, request>>
    /\ StoreUnchanged

\* autoZoomForDepth(newMaxDepth), which returns at once on an empty store
AutoZoomForDepth(newMaxDepth) ==
    /\ now < MaxEvents
    /\ Len(nodes) > 0
    /\ transition' = Transition(AutoZoomTarget(nodes, rootNodeRef, svgSize, newMaxDepth))
    /\ request' = [op |-> "autoZoomForDepth", at |-> now + 1,
                   depth |-> newMaxDepth, list |-> <<>>]
    /\ now' = now + 1
    /\ UNCHANGED <<svgSize, transform, timers, userAt>>
    /\ StoreUnchanged

\* smoothMoveToNode(list, delay): the timeout is set unless there is no
\* centre; the delay is any, so the pending timeouts run in any order
SmoothMoveToNode(list) ==
    /\ now < MaxEvents
    /\ LET centerPosition == calculateNodesCenter(nodes, list)
       IN  timers' = IF centerPosition.defined
                     THEN timers \cup {[centre |-> centerPosition, queuedAt |-> now + 1]}
                     ELSE timers
    /\ request' = [op |-> "smoothMoveToNode", at |-> now + 1, depth |-> 0, list |-> list]
    /\ now' = now + 1
    /\ UNCHANGED <<svgSize, transform, transition, userAt>>
    /\ StoreUnchanged

\* the callback of a timeout of smoothMoveToNode runs
TimerFires(t) ==
    /\ now < MaxEvents
    /\ t \in timers
    /\ transition' = Transition(CentredOn(svgSize, CentrePosition(nodes, t.centre),
                                          transform.k))
    /\ timers' = timers \ {t}
    /\ now' = now + 1
    /\ UNCHANGED <<svgSize, transform, userAt, request>>
    /\ StoreUnchanged

\* resetView()
ResetView ==
    /\ now < MaxEvents
    /\ svgSize.width > 0
    /\ transition' = Transition(ResetTarget(nodes, svgSize))
    /\ request' = [op |-> "resetView", at |-> now + 1, depth |-> 0, list |-> <<>>]
    /\ now' = now + 1
    /\ UNCHANGED <<svgSize, transform, timers, userAt>>
    /\ StoreUnchanged

\* a frame of the transition in flight
TransitionFrame ==
    /\ transition.active /\ transition.frames = 0
    /\ transform' = Halfway(transform, transition.target)
    /\ transition' = [transition EXCEPT !.frames = 1]
    /\ UNCHANGED <<svgSize, timers, now, userAt, request>>
    /\ StoreUnchanged

\* the transition in flight reaches its target and ends; the end callback of
\* autoZoomForDepth finds the scale of the target in place and does nothing
TransitionEnd ==
    /\ transition.active
    /\ transform' = transition.target
    /\ transition' = NoTransition
    /\ UNCHANGED <<svgSize, timers, now, userAt, request>>
    /\ StoreUnchanged

NextView ==
    \/ /\ calls < MaxViewCalls
       /\ \E h \in ViewHistories, m \in SimilarMaps, a \in ActiveNodes : ViewTreeEffect(h, m, a)
    \/ \E t \in UserTransforms : UserZoom(t)
    \/ \E newMaxDepth \in DepthArgs : AutoZoomForDepth(newMaxDepth)
    \/ \E list \in NodeLists(nodes) : SmoothMoveToNode(list)
    \/ \E t \in timers : TimerFires(t)
    \/ ResetView
    \/ TransitionFrame
    \/ TransitionEnd

SpecView == InitView /\ [][NextView]_vars

\* ------------------------------------- the component and its animate loops
\* A render of TreeGraph with new props.  The props are values of any kind:
\* searchHistory an array, null or a string of one character; similarRecords
\* an object or a number; onNodeSelect a function or undefined.  A
\* similarityScore may be a number (0) or a text such as "0.87" (TextScore).
TextScore == 0 - 1
NoDescription == 0   \* the description undefined

ScoredObjects == [id : {NoId}, text_for_embedding : Descs, similarityScore : {0, TextScore}]
ScoredMaps == [Ids -> {NoEntry} \cup
                      {[defined |-> TRUE, records |-> l] :
                          l \in SeqsUpTo(ScoredObjects, MaxNbrs)}]

\* "a"[0] is "a", and "a".id and "a".text_for_embedding are undefined
CharRecord == [id |-> NoId, text_for_embedding |-> NoDescription]

HistoryProps ==
    {[kind |-> "array", items |-> h] : h \in ViewHistories}
      \cup {[kind |-> "null", items |-> <<>>], [kind |-> "string", items |-> <<CharRecord>>]}
MapProps ==
    {[kind |-> "object", map |-> m] : m \in ScoredMaps}
      \cup {[kind |-> "number", map |-> NoProps]}
Props == [searchHistory : HistoryProps, similarRecords : MapProps, onNodeSelect : BOOLEAN]

KindsOf(p) == [searchHistory |-> p.searchHistory.kind,
               similarRecords |-> p.similarRecords.kind,
               onNodeSelect |-> p.onNodeSelect]

\* validateProps: the errors it collects
validateProps(p) ==
    (IF p.searchHistory.kind # "array" THEN {"searchHistory must be an array"} ELSE {})
      \cup (IF ~p.onNodeSelect THEN {"onNodeSelect must be a function"} ELSE {})
      \cup (IF p.similarRecords.kind # "object"
            THEN {"similarRecords must be an object"} ELSE {})

\* whether updateTreeFromHistory throws on these props, and the stores it
\* leaves behind when it does: null.length throws at once; a string has no
\* find, which is called, after the root step, when there is an activeNode
TreeThrows(p, a) ==
    \/ p.searchHistory.kind = "null"
    \/ p.searchHistory.kind = "string" /\ a # NullNode

NodesAtThrow(p) ==
    IF p.searchHistory.kind = "null"
    THEN [nodes |-> nodes, rootNodeRef |-> rootNodeRef]
    ELSE LET rs == RootStep(nodes, rootNodeRef, p.searchHistory.items)
         IN  [nodes |-> rs.nodes, rootNodeRef |-> rs.rootNodeRef]

\* one pass of animate of the loop lp on the store (ns, ls): updatePhysics on
\* the links the loop closed over when there are nodes (r is what it leaves),
\* then the drawing, which throws at similarityScore.toFixed when a label is
\* drawn for a link whose score is a text; requestAnimationFrame(animate) is
\* the last statement
PassOf(ns, ls, lp, r, resting) ==
    [nodes |-> IF Len(ns) > 0 THEN r.nodes ELSE ns,
     links |-> IF Len(ns) > 0 THEN r.links \o SubSeq(ls, lp.links + 1, Len(ls)) ELSE ls,
     allResting |-> IF Len(ns) > 0 THEN r.allResting ELSE resting,
     passes |-> IF Len(ns) > 0 THEN 1 ELSE 0,
     threw |-> lp.drawn /\ \E k \in 1..lp.links : ls[k].similarityScore = TextScore]

AnimatePass(ns, ls, lp, windForce, resting) ==
    PassOf(ns, ls, lp, updatePhysics(ns, SubSeq(ls, 1, lp.links), windForce), resting)

\* the effect on [links, containerSize] runs once per entry of runs, the
\* links each run closes over: it starts a loop and makes its first pass
AfterPass(st, lp, r) ==
    [nodes |-> r.nodes, links |-> r.links, allResting |-> r.allResting,
     passes |-> st.passes + r.passes, threw |-> r.threw,
     loops |-> Append(st.loops, [lp EXCEPT !.alive = ~r.threw])]

StartLoop(st, lp, windForce) ==
    AfterPass(st, lp, AnimatePass(st.nodes, st.links, lp, windForce, st.allResting))

RECURSIVE EffectRuns(_, _, _, _)
EffectRuns(st, runs, drawn, windForce) ==
    IF runs = <<>> \/ st.threw THEN st
    ELSE EffectRuns(StartLoop(st, [links |-> Head(runs), drawn |-> drawn, alive |-> TRUE],
                              windForce),
                    Tail(runs), drawn, windForce)

InitLoop ==
    /\ nodes = <<>>
    /\ links = <<>>
    /\ rootNodeRef = NullRef
    /\ maxDepth = 0
    /\ activeNode = NullNode
    /\ previousNodeCount = 0
    /\ newlyCreatedNodes = NoReturn
    /\ hasNewNodes = FALSE
    /\ calls = 0
    /\ searchHistory = <<>>
    /\ similarRecords = NoProps
    /\ NoTick
    /\ ViewAtRest
    /\ NotRendered
    /\ AppAtRest

\* the rest of the commit when updateTreeFromHistory has returned r: the
\* effect on [links, containerSize] has made the runs and left e
Commit(r, a, runs, e) ==
    /\ nodes' = e.nodes
    /\ links' = e.links
    /\ rootNodeRef' = r.rootNodeRef
    /\ newlyCreatedNodes' = r.returned
    /\ hasNewNodes' = (r.returned.defined /\ Len(r.returned.value) > 0)
    /\ maxDepth' = IF (Len(r.nodes) = 1 /\ Len(nodes) = 0)
                      \/ (r.returned.defined /\ Len(r.returned.value) > 0)
                   THEN calculateMaxDepth(r.nodes) ELSE maxDepth
    /\ previousNodeCount' = Len(nodes)
    /\ activeNode' = a
    /\ calls' = calls + 1
    /\ allResting' = e.allResting
    /\ ticks' = ticks + e.passes
    /\ loops' = e.loops
    /\ crashed' = e.threw
    /\ uncaught' = e.threw
    /\ IF runs # <<>>
       THEN /\ transform' = InitialTransform(svgSize)
            /\ transition' = NoTransition
       ELSE UNCHANGED <<transform, transition>>

EffectRunsOf(r, a, runs, drawn, windForce) ==
    Commit(r, a, runs,
           EffectRuns([nodes |-> r.nodes, links |-> r.links, allResting |-> allResting,
                       passes |-> 0, threw |-> FALSE, loops |-> loops],
                      runs, drawn, windForce))

TreeEffectThen(p, a, windForce, r) ==
    EffectRunsOf(r, a,
                 (IF renders = 0 THEN <<0>> ELSE <<>>)
                    \o (IF r.links # links \/ (renders = 0 /\ validateProps(p) = {})
                        THEN <<Len(r.links)>> ELSE <<>>),
                 validateProps(p) = {}, windForce)

\* a render with the props p and the activeNode a, and the effects of its
\* commit.  The tree effect runs whatever validateProps found, which is
\* called after all hooks.  An exception in an effect is caught by nothing
\* in the component: React removes the component.  The first render runs
\* the effect on [links, containerSize] on the initial empty links; it runs
\* again when setLinks has added links or the container has been measured
\* (the container exists only in the normal view).
Render(p, a, windForce) ==
    /\ ~crashed
    /\ ~unmounted
    /\ renders < MaxRenders
    /\ unmounted' = unmounted
    /\ renders' = renders + 1
    /\ props' = KindsOf(p)
    /\ propErrors' = (validateProps(p) # {})
    /\ hasError' = hasError
    /\ IF TreeThrows(p, a)
       THEN /\ nodes' = NodesAtThrow(p).nodes
            /\ rootNodeRef' = NodesAtThrow(p).rootNodeRef
            /\ crashed' = TRUE
            /\ uncaught' = TRUE
            /\ UNCHANGED <<links, maxDepth, activeNode, previousNodeCount,
                           newlyCreatedNodes, hasNewNodes, calls, physicsVars,
                           loops, transform, transition>>
       ELSE TreeEffectThen(p, a, windForce,
                           updateTreeFromHistory(nodes, links, rootNodeRef,
                                                 p.searchHistory.items,
                                                 p.similarRecords.map, a))
    /\ UNCHANGED <<searchHistory, similarRecords, svgSize, timers, now, userAt, request,
                   appVars>>

FrameLeaves(i, r) ==
    /\ nodes' = r.nodes
    /\ links' = r.links
    /\ allResting' = r.allResting
    /\ ticks' = ticks + r.passes
    /\ loops' = [loops EXCEPT ![i].alive = ~r.threw]
    /\ uncaught' = r.threw

\* the browser runs the frame callback of the loop i: nothing cancels a
\* loop, so every loop that asked for a frame gets it
Frame(i, windForce) ==
    /\ ticks < MaxFrames
    /\ loops[i].alive
    /\ Len(nodes) > 0
    /\ FrameLeaves(i, AnimatePass(nodes, links, loops[i], windForce, allResting))
    /\ UNCHANGED <<rootNodeRef, maxDepth, searchHistory, similarRecords, activeNode,
                   previousNodeCount, newlyCreatedNodes, hasNewNodes, calls, viewVars,
                   hasError, props, propErrors, crashed, renders, unmounted, appVars>>

ResizeLeaves(size, e) ==
    /\ svgSize' = size
    /\ nodes' = e.nodes
    /\ links' = e.links
    /\ allResting' = e.allResting
    /\ ticks' = ticks + e.passes
    /\ loops' = e.loops
    /\ crashed' = e.threw
    /\ uncaught' = e.threw
    /\ transform' = InitialTransform(size)
    /\ transition' = NoTransition

\* the window is resized: updateSize sets containerSize when the container
\* is on the page, and the effect on [links, containerSize] runs again: its
\* cleanup removes the children of the svg and cancels nothing, then a new
\* loop starts on the current links and the transform is set to the initial one
Resize(size, windForce) ==
    /\ renders > 0
    /\ ~crashed
    /\ ~unmounted
    /\ ~propErrors
    /\ size # svgSize
    /\ Len(loops) < MaxLoops
    /\ ResizeLeaves(size,
                    EffectRuns([nodes |-> nodes, links |-> links, allResting |-> allResting,
                                passes |-> 0, threw |-> FALSE, loops |-> loops],
                               <<Len(links)>>, TRUE, windForce))
    /\ UNCHANGED <<rootNodeRef, maxDepth, searchHistory, similarRecords, activeNode,
                   previousNodeCount, newlyCreatedNodes, hasNewNodes, calls,
                   timers, now, userAt, request,
                   hasError, props, propErrors, renders, unmounted, appVars>>

\* the component is unmounted: the cleanups of its effects run, which remove
\* the children of the svg and the resize listener; no frame request is
\* cancelled
Unmount ==
    /\ renders > 0
    /\ ~crashed
    /\ ~unmounted
    /\ unmounted' = TRUE
    /\ UNCHANGED <<nodes, links, rootNodeRef, maxDepth, searchHistory, similarRecords,
                   activeNode, previousNodeCount, newlyCreatedNodes, hasNewNodes, calls,
                   physicsVars, viewVars,
                   hasError, props, propErrors, crashed, uncaught, loops, renders, appVars>>

NextLoop ==
    \/ /\ renders < MaxRenders
       /\ ~crashed
       /\ \E p \in Props, a \in ActiveNodes, windForce \in WindForces :
             Render(p, a, windForce)
    \/ /\ ticks < MaxFrames
       /\ \E i \in 1..Len(loops), windForce \in WindForces : Frame(i, windForce)
    \/ /\ Len(loops) < MaxLoops
       /\ \E size \in SvgSizes, windForce \in WindForces : Resize(size, windForce)
    \/ Unmount

SpecLoop == InitLoop /\ [][NextLoop]_vars

\* =================================================================
\* Properties of the store, checked under Spec
\* =================================================================
NodeIds == 1..Len(nodes)

\* the nodes the latest run created, and those of them that were attached
\* as children
CreatedNodes == {i \in NodeIds : i > previousNodeCount}
CreatedChildren == {i \in CreatedNodes : nodes[i].parentNode # NullRef}

\* the nodes the latest run could look up when it chose the parent: the
\* nodes from before the run and the root it created, if it did
LookupNodes == {i \in NodeIds : i <= previousNodeCount \/ nodes[i].parentNode = NullRef}

Roots == {i \in NodeIds : nodes[i].parentNode = NullRef}

\* the i-th ancestor of node n (n itself for i = 0), NullRef past a root
RECURSIVE Ancestor(_, _)
Ancestor(n, i) ==
    IF i = 0 \/ n = NullRef THEN n ELSE Ancestor(nodes[n].parentNode, i - 1)

\* C1: no two nodes of the store have the same description, whatever the
\* runs of the Tree Builder were given (a neighbour list that names one
\* description twice included).
C1_NoDuplicateDescriptions ==
    \A i, j \in NodeIds : i # j => nodes[i].description # nodes[j].description

\* C5: once a node exists, exactly one node has no parent, and every other
\* node reaches it along parent references in fewer steps than there are
\* nodes (so there is no cycle).
C5_SingleRootedTree ==
    Len(nodes) > 0 =>
        /\ Cardinality(Roots) = 1
        /\ \A n \in NodeIds : \E i \in 0..(Len(nodes) - 1) : Ancestor(n, i) \in Roots

\* C6: a node without a parent has depth 0 and every other node has the
\* depth of its parent plus 1.
C6_DepthInvariant ==
    \A n \in NodeIds :
        IF nodes[n].parentNode = NullRef
        THEN nodes[n].depth = 0
        ELSE /\ nodes[n].parentNode \in NodeIds
             /\ nodes[n].depth = nodes[nodes[n].parentNode].depth + 1

\* C6 witness: a run attached a child under a node that is itself a child
C6_Witness ==
    \E n \in CreatedChildren : nodes[n].depth = 2 /\ nodes[nodes[n].parentNode].depth = 1

\* C7: the children a run attaches hang under the first node that has the
\* active node's description when there is one, and under the root (a node
\* without a parent) when the active node is null or matches no node.
C7_AttachUnderActiveOrRoot ==
    LET matches == {i \in LookupNodes : activeNode # NullNode
                                         /\ nodes[i].description = activeNode}
    IN  \A c \in CreatedChildren :
            IF matches # {}
            THEN /\ nodes[c].parentNode \in matches
                 /\ \A i \in matches : nodes[c].parentNode <= i
            ELSE nodes[c].parentNode \in Roots

\* =================================================================
\* Properties of one run, checked under SpecCall, where the three props
\* of the run are kept next to the store it left
\* =================================================================
Traced == calls = 1

\* the children the traced run attached, in the order of their creation
\* (they are the last K nodes of the list)
K == Cardinality(CreatedChildren)
Child(k) == Len(nodes) - K + k
Dx(c) == nodes[c].position.x - nodes[nodes[c].parentNode].position.x
Dy(c) == nodes[c].position.y - nodes[nodes[c].parentNode].position.y

\* the visited record the specification names as the target: the first one
\* with the active node's description, else the last one
SpecTarget ==
    LET hits == {i \in 1..Len(searchHistory) :
                    activeNode # NullNode
                    /\ searchHistory[i].text_for_embedding = activeNode}
    IN  IF hits # {}
        THEN searchHistory[CHOOSE i \in hits : \A j \in hits : i <= j]
        ELSE searchHistory[Len(searchHistory)]

\* the list the map holds for that record, if it holds one
SpecTargetHasList ==
    SpecTarget.id \in Ids /\ similarRecords[SpecTarget.id].defined
SpecTargetList ==
    IF SpecTargetHasList THEN similarRecords[SpecTarget.id].records ELSE <<>>

DistinctDescriptions ==
    \A i, j \in 1..Len(searchHistory) :
        i # j => searchHistory[i].text_for_embedding # searchHistory[j].text_for_embedding
EmptyNeighbourLists == \A i \in Ids : similarRecords[i].records = <<>>

\* C2: a second run with the props of the traced run creates no node and no
\* link: it leaves the node list and the link list as the first run left them.
C2_Idempotent ==
    Traced =>
        LET r == updateTreeFromHistory(nodes, links, rootNodeRef,
                                       searchHistory, similarRecords, activeNode)
        IN  /\ r.nodes = nodes
            /\ r.links = links
            /\ r.returned.value = <<>>

\* C2 witness: the first of the two runs built something on a store that
\* was not empty
C2_Witness ==
    Traced /\ previousNodeCount > 0 /\ K = 2 /\ Len(links) >= 2

TwoNeighbourScenario ==
    /\ Traced /\ previousNodeCount = 0 /\ activeNode = NullNode
    /\ Len(searchHistory) = 1 /\ searchHistory[1].id \in Ids
    /\ LET e == similarRecords[searchHistory[1].id]
       IN  /\ e.defined /\ Len(e.records) = 2
           /\ Cardinality({searchHistory[1].text_for_embedding,
                            e.records[1].text_for_embedding,
                            e.records[2].text_for_embedding}) = 3

\* C4 (as claimed): the children one run attaches all lie at the fixed
\* vertical offset from the parent and their horizontal offsets are
\* symmetric about 0; history [X] with neighbours [Y, Z] gives 3 nodes and
\* 2 links with Y and Z mirrored around X.
C4_SymmetricSiblings ==
    Traced =>
        /\ \A c \in CreatedChildren :
              /\ Dy(c) = CHILD_OFFSET_Y
              /\ \E d \in CreatedChildren : Dx(d) = 0 - Dx(c)
        /\ TwoNeighbourScenario =>
              /\ Len(nodes) = 3 /\ Len(links) = 2
              /\ Dx(2) = 0 - Dx(3) /\ Dx(2) # 0

\* C4 (amended): the k-th of K attached children lies at the fixed vertical
\* offset and at the horizontal offset (k - 1 - floor(K/2)) * spread, which
\* is symmetric about 0 when K is odd; history [X] with neighbours [Y, Z]
\* gives 3 nodes and 2 links with Y one spread to the left of X and Z at X.
C4_SiblingPlacement ==
    Traced =>
        /\ \A k \in 1..K :
              /\ Child(k) \in CreatedChildren
              /\ Dy(Child(k)) = CHILD_OFFSET_Y
              /\ Dx(Child(k)) = (k - 1 - (K \div 2)) * CHILD_SPREAD
        /\ K % 2 = 1 =>
              \A c \in CreatedChildren : \E d \in CreatedChildren : Dx(d) = 0 - Dx(c)
        /\ TwoNeighbourScenario =>
              /\ Len(nodes) = 3 /\ Len(links) = 2
              /\ Dx(2) = 0 - CHILD_SPREAD /\ Dx(3) = 0

\* C4 witness: two children attached under a parent that is not at the origin
C4_Witness ==
    /\ Traced /\ K = 2
    /\ nodes[nodes[Child(1)].parentNode].position # [x |-> 0, y |-> 0]

\* C8: the children a run attaches are the neighbours that the map lists for
\* the target record (the first visited record with the active node's
\* description, else the last visited record) and that no node had yet, in
\* the order of that list; nothing of any other record's list is attached.
C8_TargetRecordList ==
    (Traced /\ Len(searchHistory) > 0) =>
        LET fresh == SelectSeq(SpecTargetList,
                               LAMBDA s : \A i \in LookupNodes :
                                   nodes[i].description # s.text_for_embedding)
        IN  /\ K = Len(fresh)
            /\ \A k \in 1..K :
                  nodes[Child(k)].description = fresh[k].text_for_embedding

\* C8 witness: the active node names the first of two visited records, the
\* last record has no list, and the first record's neighbours are attached
C8_Witness ==
    /\ Traced /\ Len(searchHistory) = 2 /\ K > 0
    /\ activeNode = searchHistory[1].text_for_embedding
    /\ searchHistory[1].id \in Ids /\ searchHistory[2].id = NoId

\* the traced run had a history and the map held no list for its target
NoListRun == Traced /\ Len(searchHistory) > 0 /\ ~SpecTargetHasList

\* C9 (as claimed): a run for whose target record the map holds no list
\* leaves the node list and the link list as they were.
C9_NoListNoOp ==
    [][NoListRun' => (nodes' = nodes /\ links' = links)]_vars

\* C9 (amended): such a run attaches nothing; it leaves the link list as it
\* was, and the node list too unless no node has the description of the
\* first visited record, in which case it appends the root for that record.
C9_NoListOnlyRoot ==
    [][NoListRun' =>
        /\ links' = links
        /\ IF \E i \in 1..Len(nodes) :
                  nodes[i].description = searchHistory'[1].text_for_embedding
           THEN nodes' = nodes
           ELSE /\ Len(nodes') = Len(nodes) + 1
                /\ SubSeq(nodes', 1, Len(nodes)) = nodes
                /\ nodes'[Len(nodes')].description = searchHistory'[1].text_for_embedding
                /\ nodes'[Len(nodes')].parentNode = NullRef
                /\ nodes'[Len(nodes')].childNodes = <<>>
                /\ nodes'[Len(nodes')].position = [x |-> 0, y |-> 0]]_vars

\* C9 witness: a run without a list for its target created the root on
\* the empty store
C9_Witness ==
    NoListRun /\ previousNodeCount = 0 /\ Len(nodes) = 1

LinkIds == 1..Len(links)

\* every link joins a node to the node that is its parent
LinksAreParentEdges ==
    \A k \in LinkIds :
        /\ links[k].target \in NodeIds
        /\ nodes[links[k].target].parentNode = links[k].source

\* every node with a parent is the target of exactly one link
OneLinkPerChild ==
    \A n \in NodeIds \ Roots :
        Cardinality({k \in LinkIds : links[k].target = n}) = 1

\* a run only appends links, and the target of each link it appends is a
\* node it created
LinksAddedWithTarget ==
    /\ Len(links') >= Len(links)
    /\ \A k \in LinkIds : links'[k] = links[k]
    /\ \A k \in (Len(links) + 1)..Len(links') : links'[k].target > Len(nodes)

\* C11: links mirror tree edges: every link has target.parent = source and
\* was added by the run that created its target, every node with a parent is
\* the target of exactly one link, and the number of links is the number of
\* nodes minus 1 once a node exists.
C11_LinksMirrorEdges ==
    /\ [](LinksAreParentEdges /\ OneLinkPerChild)
    /\ [][LinksAddedWithTarget]_vars
    /\ [](Len(nodes) > 0 => Len(links) = Len(nodes) - 1)

\* the part of C11 that does not count the roots
C11_EdgesOnly ==
    /\ [](LinksAreParentEdges /\ OneLinkPerChild)
    /\ [][LinksAddedWithTarget]_vars

\* =================================================================
\* Properties of the physics, checked under SpecPhysics
\* =================================================================
HasParent(n) == nodes[n].parentNode # NullRef

\* what Phase 1 alone makes of the velocity of node n: halved for a node
\* with a parent, left alone for a node without
Phase1Velocity(n) ==
    IF HasParent(n)
    THEN [x |-> Quot(nodes[n].velocity.x * DAMPING, 100),
          y |-> Quot(nodes[n].velocity.y * DAMPING, 100)]
    ELSE nodes[n].velocity

\* the tick changed some velocity by more than the damping of Phase 1
ForcesApplied == \E n \in NodeIds : nodes'[n].velocity # Phase1Velocity(n)

Epsilon == PX

\* the distance between the centres of nodes a and b
CentreDistance(a, b) ==
    Hypot(Sub(nodes[b].position.x, nodes[a].position.x),
          Sub(nodes[b].position.y, nodes[a].position.y))

\* C13: after a tick (Phase 2 moves no node, so the positions are those the
\* collision pass left) every two distinct nodes, the root included, are at
\* least the sum of their radii plus the buffer apart, up to Epsilon.
C13_NoOverlapAfterPass ==
    ticks > 0 =>
        \A a, b \in NodeIds :
            a < b => ~Less(CentreDistance(a, b),
                           nodes[a].extends + nodes[b].extends + COLLISION_BUFFER - Epsilon)

\* the same for the pairs of nodes that both have a parent
C13_NoOverlapOfChildren ==
    ticks > 0 =>
        \A a, b \in NodeIds :
            (a < b /\ HasParent(a) /\ HasParent(b))
                => ~Less(CentreDistance(a, b),
                         nodes[a].extends + nodes[b].extends + COLLISION_BUFFER - Epsilon)

\* =================================================================
\* Properties of the viewport, checked under SpecView
\* =================================================================
\* the latest event of the viewport was a call of smoothMoveToNode
JustAskedToMove == request.op = "smoothMoveToNode" /\ request.at = now

\* the timeouts that call has set
TimersOfRequest == {t \in timers : t.queuedAt = request.at}

\* p is the mean of the positions a and b, up to the rounding of a half unit
IsMean(p, a, b) ==
    /\ 2 * p.x - (a.x + b.x) \in {0 - 1, 0, 1}
    /\ 2 * p.y - (a.y + b.y) \in {0 - 1, 0, 1}

\* C14: the centre that smoothMoveToNode aims at is the position of the only
\* node of the list, of the element at index floor(n/2) (counted from 0) of a
\* list of odd length, the mean of the positions at indices n/2-1 and n/2 of
\* a list of even length; for the empty list there is no centre and no
\* timeout is set.
C14_RepresentativeCentre ==
    JustAskedToMove =>
        LET l == request.list
            n == Len(l)
        IN  IF n = 0 THEN TimersOfRequest = {}
            ELSE /\ Cardinality(TimersOfRequest) = 1
                 /\ \A t \in TimersOfRequest :
                       LET p == CentrePosition(nodes, t.centre)
                       IN  IF n % 2 = 1
                           THEN p = nodes[l[(n \div 2) + 1]].position
                           ELSE IsMean(p, nodes[l[n \div 2]].position,
                                          nodes[l[(n \div 2) + 1]].position)

\* C14 witness: a move was asked for three nodes at three different places
C14_Witness ==
    /\ JustAskedToMove /\ Len(request.list) = 3
    /\ Cardinality({nodes[request.list[i]].position : i \in 1..3}) = 3
    /\ TimersOfRequest # {}

\* a move was asked for two nodes at different places, and for no node
C14_WitnessEven ==
    /\ JustAskedToMove /\ Len(request.list) = 2
    /\ nodes[request.list[1]].position # nodes[request.list[2]].position
    /\ TimersOfRequest # {}

\* the latest event of the viewport was a call of autoZoomForDepth, whose
\* transition is in flight
JustAskedToZoom ==
    request.op = "autoZoomForDepth" /\ request.at = now /\ transition.active

\* (height - 2 * padding) / (depth * edgeLength) for depth >= 1, clamped
ClampedFit(depth) ==
    LET fit == Quot((svgSize.height - 2 * PADDING) * ZOOM, depth * EDGE_LENGTH)
    IN  IF fit < MIN_ZOOM THEN MIN_ZOOM ELSE IF fit > MAX_ZOOM THEN MAX_ZOOM ELSE fit

\* a depth at which the estimated height exceeds every viewport
LargeDepth == 100

\* C15: the scale autoZoomForDepth aims at is 1 on a store of one node and
\* the clamped quotient on a larger store, for every depth >= 0; it lies in
\* [MIN_ZOOM, MAX_ZOOM], does not grow with the depth, and is MIN_ZOOM for a
\* large depth.
C15_ScaleForDepth ==
    JustAskedToZoom =>
        LET k == transition.target.k
        IN  /\ k # NaN /\ MIN_ZOOM <= k /\ k <= MAX_ZOOM
            /\ Len(nodes) = 1 => k = DEFAULT_ZOOM
            /\ (Len(nodes) > 1 /\ request.depth >= 1) => k = ClampedFit(request.depth)
            /\ Len(nodes) > 1 =>
                  /\ \A d \in DepthArgs :
                        d <= request.depth
                            => ~Less(FinalZoom(nodes, svgSize, d), k)
                  /\ FinalZoom(nodes, svgSize, LargeDepth) = MIN_ZOOM

\* the same for the depths from 1 on
C15_ScaleForPositiveDepth ==
    (JustAskedToZoom /\ (Len(nodes) > 1 => request.depth >= 1)) =>
        LET k == transition.target.k
        IN  /\ k # NaN /\ MIN_ZOOM <= k /\ k <= MAX_ZOOM
            /\ Len(nodes) = 1 => k = DEFAULT_ZOOM
            /\ Len(nodes) > 1 =>
                  /\ k = ClampedFit(request.depth)
                  /\ \A d \in 1..request.depth : FinalZoom(nodes, svgSize, d) >= k
                  /\ FinalZoom(nodes, svgSize, LargeDepth) = MIN_ZOOM

\* the transform that shows the first node of the store at the middle of the
\* svg at scale 1
RootCentred(ns) == CentredOn(svgSize, ns[1].position, ZOOM)

\* C16: a run of the Tree Builder that creates the first node of an empty
\* store leaves the viewport at, or in a transition to, scale 1 with the
\* root at the middle of the svg, whatever the transform was before.
C16_CentreOnFirstNode ==
    [][(Len(nodes) = 0 /\ Len(nodes') > 0)
          => \/ transform' = RootCentred(nodes')
             \/ transition'.active /\ transition'.target = RootCentred(nodes')]_vars

\* the transform is one that a gesture of the user has set, and nothing is
\* moving it
UserTransformStands == userAt > 0 /\ ~transition.active /\ transform \in UserTransforms

\* C17: when the user has panned or zoomed after a call of smoothMoveToNode
\* and before its timeout ran, the timeout running later does not replace
\* the transform the user set.
C17_NoStaleMove ==
    [][\A t \in timers \ timers' :
          (t.queuedAt < userAt /\ UserTransformStands)
              => /\ transform' = transform
                 /\ transition'.active => transition'.target = transform]_vars

\* no transition is in flight and no timeout is pending
Settled == timers = {} /\ ~transition.active

\* the transform the latest programmatic request asked for
RequestTarget ==
    IF request.op = "resetView" THEN ResetTarget(nodes, svgSize)
    ELSE IF request.op = "autoZoomForDepth"
    THEN AutoZoomTarget(nodes, rootNodeRef, svgSize, request.depth)
    ELSE CentredOn(svgSize,
                   CentrePosition(nodes, calculateNodesCenter(nodes, request.list)),
                   transform.k)

\* the latest programmatic request had a target, and the user has not
\* touched the view since
RequestStands ==
    /\ request.op \in {"resetView", "autoZoomForDepth", "smoothMoveToNode"}
    /\ request.op = "smoothMoveToNode" => Len(request.list) > 0
    /\ userAt < request.at

\* C18: once nothing is moving or waiting any more, the transform is the
\* target of the latest programmatic request; no earlier request, a
\* smoothMoveToNode whose timeout was still pending included, decides it.
C18_LastRequestWins ==
    (Settled /\ RequestStands) => transform = RequestTarget

\* =================================================================
\* Properties of the component and its animate loops, checked under SpecLoop
\* =================================================================
\* the step is a render with new props
IsRender == renders' = renders + 1

\* the props of the latest render are malformed: the history is not a
\* sequence, the neighbour map is not a mapping or the callback is not callable
Malformed ==
    \/ props.searchHistory # "array"
    \/ props.similarRecords # "object"
    \/ ~props.onNodeSelect

\* C19: a render with malformed props shows the error view and the input
\* never reaches the engine: the node and link stores are as they were before
\* the render and no exception is raised.
C19_MalformedNeverReachesEngine ==
    [][(IsRender /\ Malformed')
          => (propErrors' /\ nodes' = nodes /\ links' = links /\ ~uncaught')]_vars

\* the loop the latest run of the effect started, which draws into the
\* group on the page, no longer asks for frames
LoopStopped == loops # <<>> /\ ~loops[Len(loops)].alive

\* C20: a fault inside the frame loop is never silent: in no reachable state
\* has the loop stopped while hasError is false.
C20_NoSilentStop == ~(LoopStopped /\ ~hasError)

\* C21: teardown stops the engine: once the component is unmounted, no frame
\* callback runs updatePhysics on the store again.
C21_TeardownStopsLoop == [][unmounted => (ticks' = ticks /\ nodes' = nodes)]_vars

\* the loops that have asked for the next animation frame: the browser runs
\* the callback of each of them in that frame
PendingLoops == {i \in 1..Len(loops) : loops[i].alive}

\* C22: physics runs once per frame: while the component is mounted and the
\* store has nodes, exactly one loop has asked for the next frame, and that
\* loop runs updatePhysics with the current link list.
C22_OncePerFrame ==
    (renders > 0 /\ ~crashed /\ ~unmounted /\ Len(nodes) > 0) =>
        /\ Cardinality(PendingLoops) = 1
        /\ \A i \in PendingLoops : loops[i].links = Len(links)

\* =================================================================
\* Attaching neighbours, checked under SpecAttach
\* =================================================================
\* the neighbours of the target record that no node had when the run chose
\* the parent, in the order of the list
FreshNeighbours ==
    SelectSeq(SpecTargetList,
              LAMBDA s : \A i \in LookupNodes : nodes[i].description # s.text_for_embedding)

\* the links the traced run registered, in the order of their creation
LinkOf(k) == links[Len(links) - K + k]

\* C23: the child created for the neighbour at index i (0-based) among the K
\* that remain after filtering lies at (parent.x + (i - floor(K/2)) * 50,
\* parent.y - 50), with zero velocity, appended last to the parent's
\* children, and with a link from the parent that carries the neighbour's
\* similarity score, 0 when the score is absent.  (The run moves no node, so
\* the parent's position is its position at the time of the call.)
C23_AttachPosition ==
    (Traced /\ Len(searchHistory) > 0) =>
        /\ K = Len(FreshNeighbours)
        /\ Len(links) >= K
        /\ \A k \in 1..K :
              LET c == Child(k)
                  parent == nodes[c].parentNode
                  kids == nodes[parent].childNodes
              IN  /\ parent # NullRef /\ parent = nodes[Child(1)].parentNode
                  /\ nodes[c].position =
                        [x |-> nodes[parent].position.x + (k - 1 - (K \div 2)) * 50 * PX,
                         y |-> nodes[parent].position.y - 50 * PX]
                  /\ nodes[c].velocity = [x |-> 0, y |-> 0]
                  /\ Len(kids) >= K /\ kids[Len(kids) - K + k] = c
                  /\ LinkOf(k).source = parent /\ LinkOf(k).target = c
                  /\ LinkOf(k).similarityScore =
                        IF FreshNeighbours[k].similarityScore = NoScore
                        THEN 0 ELSE FreshNeighbours[k].similarityScore

\* C23 witness: two children attached under a parent away from the origin,
\* the one neighbour without a score, the other with one
C23_Witness ==
    /\ Traced /\ K = 2
    /\ nodes[nodes[Child(1)].parentNode].position # [x |-> 0, y |-> 0]
    /\ FreshNeighbours[1].similarityScore = NoScore /\ LinkOf(1).similarityScore = 0
    /\ FreshNeighbours[2].similarityScore = 87 /\ LinkOf(2).similarityScore = 87

\* =================================================================
\* Initial angles and degenerate links, checked under SpecScene and
\* SpecPhysics
\* =================================================================
\* C24: the initial angle of a link is captured at most once: once it has
\* been recorded, no later tick changes it, whatever value was captured.
C24_AngleCapturedOnce ==
    [][\A k \in 1..Len(links) :
          links[k].initialAngle.defined => links'[k].initialAngle = links[k].initialAngle]_vars

\* the step is a tick of updatePhysics in which Phase 2 executed
Phase2Ran == ticks' = ticks + 1 /\ allResting'

\* C25: every link, the links from the root included, has its initial angle
\* recorded by the first tick in which Phase 2 executes.
C25_EveryLinkGetsAngle ==
    [][Phase2Ran => \A k \in 1..Len(links') : links'[k].initialAngle.defined]_vars

\* C26: a link whose two endpoints have the same position is skipped by
\* Phase 2: every velocity stays a finite number.
C26_VelocitiesFinite ==
    \A i \in 1..Len(nodes) : nodes[i].velocity.x # NaN /\ nodes[i].velocity.y # NaN

\* C28: the root is pinned: after any number of ticks every node without a
\* parent is at its creation position (0, 0).
C28_RootPinned ==
    \A i \in 1..Len(nodes) :
        nodes[i].parentNode = NullRef => nodes[i].position = [x |-> 0, y |-> 0]

\* =================================================================
\* Tree growth and the user's view, checked under SpecView
\* =================================================================
\* the step is a run of the tree effect
IsTreeEffect == calls' = calls + 1

\* C27: tree growth does not disturb the user's view: a Tree Builder call
\* made after the user has panned or zoomed, with no transition in flight,
\* leaves the viewport transform as the user set it.
C27_GrowthKeepsUserView ==
    [][(IsTreeEffect /\ UserTransformStands) => transform' = transform]_vars

\* =================================================================
\* The parent of the attached neighbours, checked under SpecCall
\* =================================================================
\* C29: neighbours hang under their own record: when a run attaches
\* neighbours, their parent is the node whose description is the description
\* of the visited record whose neighbour list was used.
C29_ParentIsTargetRecord ==
    (Traced /\ Len(searchHistory) > 0 /\ K > 0) =>
        \A c \in CreatedChildren :
            nodes[nodes[c].parentNode].description = SpecTarget.text_for_embedding

\* ===================================================================
\* The App: selections and the requests of fetchSimilarObjects
\* ===================================================================
\* the temporary id that Date.now() gives the next selection
TempId == NumObjects + selections + 1

\* the answer of the service for the object i: its neighbours are the
\* other objects, the nearest first
SimilarOf(i) == [k \in 1..(NumObjects - 1) |-> Obj(((i + k - 1) % NumObjects) + 1)]

\* searchHistory.find by description and by id: the first item that
\* matches, or nothing
RECURSIVE FindByDescription(_, _, _)
FindByDescription(items, d, k) ==
    IF k > Len(items) THEN NoSelection
    ELSE IF items[k].text_for_embedding = d THEN items[k]
    ELSE FindByDescription(items, d, k + 1)

RECURSIVE FindById(_, _, _)
FindById(items, id, k) ==
    IF k > Len(items) THEN NoSelection
    ELSE IF items[k].id = id THEN items[k]
    ELSE FindById(items, id, k + 1)

RecordsOrEmpty(id) == IF appRecords[id].defined THEN appRecords[id].list ELSE <<>>

\* the descriptions of the nodes the tree can show: the history items and
\* the neighbours recorded for them
ShownDescriptions ==
    {appHistory[k].text_for_embedding : k \in 1..Len(appHistory)}
        \cup UNION {{appRecords[i].list[k].text_for_embedding : k \in 1..Len(appRecords[i].list)}
                        : i \in AllIds}

\* fetchSimilarObjects up to its await: nothing is requested for an object
\* without an id
Requested(selectedObject) ==
    IF selectedObject.id = NoObject THEN {}
    ELSE {[object |-> selectedObject, at |-> selections + 1]}

TreeUnchanged ==
    UNCHANGED <<nodes, links, rootNodeRef, maxDepth, searchHistory, similarRecords,
                activeNode, previousNodeCount, newlyCreatedNodes, hasNewNodes, calls,
                physicsVars, viewVars, loopVars>>

\* the response of fetchObjectBySearch arrives with the object o
fetchObjectBySearch(o) ==
    /\ selections < MaxSelections
    /\ selections' = selections + 1
    /\ object' = o
    /\ appHistory' = Append(appHistory, o)
    /\ appError' = FALSE
    /\ searchedNodes' = searchedNodes \cup {o.id}
    /\ fetches' = fetches \cup Requested(o)
    /\ UNCHANGED <<similarObjects, appRecords, fetchTimers>>
    /\ TreeUnchanged

\* a click on the card of selectedObject in the displayed list
handleSimilarObjectClick(selectedObject) ==
    /\ selections < MaxSelections
    /\ selections' = selections + 1
    /\ appHistory' = Append(appHistory, selectedObject)
    /\ object' = selectedObject
    /\ searchedNodes' = searchedNodes \cup {selectedObject.id}
    /\ similarObjects' = <<>>
    /\ fetchTimers' = Append(fetchTimers, selectedObject)
    /\ UNCHANGED <<appRecords, fetches, appError>>
    /\ TreeUnchanged

\* the callback of setTimeout(() => fetchSimilarObjects(selectedObject), 0)
FetchTimerFires ==
    /\ Len(fetchTimers) > 0
    /\ fetchTimers' = Tail(fetchTimers)
    /\ fetches' = fetches \cup {[object |-> Head(fetchTimers), at |-> selections]}
    /\ UNCHANGED <<object, similarObjects, appRecords, appHistory, searchedNodes,
                   appError, selections>>
    /\ TreeUnchanged

\* a click on the node of the tree with the description d; the nodes of the
\* tree carry no id
handleNodeSelect(d) ==
    LET byDescription == FindByDescription(appHistory, d, 1)
        nodeId == byDescription.id
        existingHistoryItem == FindById(appHistory, nodeId, 1)
        nodeObject == [id |-> IF nodeId # NoObject THEN nodeId ELSE TempId,
                       text_for_embedding |-> d]
    IN  /\ selections < MaxSelections
        /\ selections' = selections + 1
        /\ IF nodeId # NoObject /\ nodeId \in searchedNodes
           THEN /\ IF existingHistoryItem # NoSelection
                   THEN /\ object' = existingHistoryItem
                        /\ similarObjects' = RecordsOrEmpty(existingHistoryItem.id)
                   ELSE UNCHANGED <<object, similarObjects>>
                /\ UNCHANGED <<appHistory, searchedNodes, fetches>>
           ELSE /\ object' = nodeObject
                /\ appHistory' = Append(appHistory, nodeObject)
                /\ searchedNodes' = searchedNodes \cup {nodeObject.id}
                /\ fetches' = fetches \cup Requested(nodeObject)
                /\ UNCHANGED similarObjects
        /\ UNCHANGED <<appRecords, fetchTimers, appError>>
        /\ TreeUnchanged

\* the response of the request f arrives: the service knows the objects of
\* ObjectIds and answers with their neighbours
Response(f) ==
    /\ f.object.id \in ObjectIds
    /\ fetches' = fetches \ {f}
    /\ similarObjects' = SimilarOf(f.object.id)
    /\ appRecords' = [appRecords EXCEPT ![f.object.id] =
                          [defined |-> TRUE, list |-> SimilarOf(f.object.id)]]
    /\ UNCHANGED <<object, appHistory, searchedNodes, fetchTimers, appError, selections>>
    /\ TreeUnchanged

\* the request f fails, or its response is not ok
ResponseFails(f) ==
    /\ fetches' = fetches \ {f}
    /\ appError' = TRUE
    /\ UNCHANGED <<object, similarObjects, appRecords, appHistory, searchedNodes,
                   fetchTimers, selections>>
    /\ TreeUnchanged

NextApp ==
    \/ \E o \in Objects : fetchObjectBySearch(o)
    \/ \E k \in 1..Len(similarObjects) : handleSimilarObjectClick(similarObjects[k])
    \/ FetchTimerFires
    \/ \E d \in ShownDescriptions : handleNodeSelect(d)
    \/ \E f \in fetches : Response(f)
    \/ \E f \in fetches : ResponseFails(f)

SpecApp == Init /\ [][NextApp]_vars

\* ---------------------------------------------------------------
\* Requests that complete out of order
\* ---------------------------------------------------------------
\* no request is pending, and the request of every selected object of the
\* service has been answered
AllCompleted ==
    /\ fetches = {}
    /\ fetchTimers = <<>>
    /\ \A i \in searchedNodes \cap ObjectIds : appRecords[i].defined

\* C30: after the user has selected an object and then another, and the
\* requests of fetchSimilarObjects for both have completed in either
\* order, the displayed list is the list of the selected object, and
\* similarRecords maps each selected object to its own list.
C30_DisplayedListIsSelected ==
    (AllCompleted /\ object.id \in ObjectIds) =>
        /\ similarObjects = SimilarOf(object.id)
        /\ \A i \in searchedNodes \cap ObjectIds : appRecords[i].list = SimilarOf(i)

====
